---- MODULE Spec2Model ----
(***************************************************************************)
(* A model of nano_transmitter_api.py: the per-user brain store, the       *)
(* learning and inference functions, the teacher command and the request   *)
(* handlers.  Texts are strings; a Python dict is a sequence of <<key,     *)
(* value>> pairs in insertion order; a weight is a whole number of         *)
(* millionths (Unit = 1.0).                                                *)
(***************************************************************************)
EXTENDS Integers, Sequences, FiniteSets, TLC

VARIABLES fs, lock, running, req, heap, durable, order, crashes, gen, tch,
          ing, prd

vars ==
    <<fs, lock, running, req, heap, durable, order, crashes, gen, tch, ing, prd>>

(***************************************************************************)
(* Python str methods.                                                     *)
(***************************************************************************)
Char(s, i) == SubSeq(s, i, i)

Whitespace == {" ", "\t", "\n", "\r", "\f"}

UpperCase == "ABCDEFGHIJKLMNOPQRSTUVWXYZ"

LowerCase == "abcdefghijklmnopqrstuvwxyz"

Digits == "0123456789"

RECURSIVE IndexIn(_, _, _)
\* the least index >= i of character c in s, or 0
IndexIn(c, s, i) ==
    IF i > Len(s) THEN 0
    ELSE IF Char(s, i) = c THEN i ELSE IndexIn(c, s, i + 1)

LowerChar(c) ==
    LET i == IndexIn(c, UpperCase, 1)
    IN  IF i = 0 THEN c ELSE Char(LowerCase, i)

RECURSIVE Lower(_)
\* str.lower()
Lower(s) == IF Len(s) = 0 THEN "" ELSE LowerChar(Head(s)) \o Lower(Tail(s))

\* str.isalnum() of one character
IsAlnum(c) ==
    \/ IndexIn(c, UpperCase, 1) # 0
    \/ IndexIn(c, LowerCase, 1) # 0
    \/ IndexIn(c, Digits, 1) # 0

RECURSIVE Find(_, _, _)
\* the least index >= i at which sub occurs in s, or 0
Find(sub, s, i) ==
    IF i + Len(sub) - 1 > Len(s) THEN 0
    ELSE IF SubSeq(s, i, i + Len(sub) - 1) = sub THEN i
    ELSE Find(sub, s, i + 1)

\* sub in s
Contains(sub, s) == Find(sub, s, 1) # 0

RECURSIVE AfterLast(_, _)
\* s.split(sep)[-1]: what follows the last occurrence of sep, scanning from
\* the left without overlap; s itself when sep does not occur
AfterLast(sep, s) ==
    LET i == Find(sep, s, 1)
    IN  IF i = 0 THEN s ELSE AfterLast(sep, SubSeq(s, i + Len(sep), Len(s)))

RECURSIVE LStrip(_)
LStrip(s) ==
    IF Len(s) > 0 /\ Head(s) \in Whitespace THEN LStrip(Tail(s)) ELSE s

RECURSIVE RStrip(_)
RStrip(s) ==
    IF Len(s) > 0 /\ Char(s, Len(s)) \in Whitespace
    THEN RStrip(SubSeq(s, 1, Len(s) - 1)) ELSE s

\* str.strip()
Strip(s) == RStrip(LStrip(s))

RECURSIVE SplitFrom(_, _, _)
\* the tokens of s from index i on, cur being the token read so far
SplitFrom(s, i, cur) ==
    IF i > Len(s) THEN (IF cur = "" THEN <<>> ELSE <<cur>>)
    ELSE IF Char(s, i) \in Whitespace
         THEN (IF cur = "" THEN <<>> ELSE <<cur>>) \o SplitFrom(s, i + 1, "")
         ELSE SplitFrom(s, i + 1, cur \o Char(s, i))

\* str.split(): the whitespace-delimited tokens
Split(s) == SplitFrom(s, 1, "")

\* s.split(sep, 1), for an s that contains sep
SplitOnce(sep, s) ==
    LET i == Find(sep, s, 1)
    IN  <<SubSeq(s, 1, i - 1), SubSeq(s, i + Len(sep), Len(s))>>

\* s[:n]
Take(s, n) == SubSeq(s, 1, IF n < Len(s) THEN n ELSE Len(s))

RECURSIVE Join(_)
\* " ".join(seq)
Join(seq) ==
    IF Len(seq) = 0 THEN ""
    ELSE IF Len(seq) = 1 THEN seq[1]
    ELSE seq[1] \o " " \o Join(Tail(seq))

InSeq(x, seq) == \E i \in 1..Len(seq) : seq[i] = x

(***************************************************************************)
(* Python dict: <<key, value>> pairs in insertion order.                   *)
(***************************************************************************)
RECURSIVE KeyIdxFrom(_, _, _)
KeyIdxFrom(d, k, i) ==
    IF i > Len(d) THEN 0
    ELSE IF d[i][1] = k THEN i ELSE KeyIdxFrom(d, k, i + 1)

KeyIdx(d, k) == KeyIdxFrom(d, k, 1)

\* k in d
Has(d, k) == KeyIdx(d, k) # 0

\* d[k]
Get(d, k) == d[KeyIdx(d, k)][2]

\* d.get(k, dflt)
GetOr(d, k, dflt) == IF Has(d, k) THEN Get(d, k) ELSE dflt

\* d[k] = v: in place when k is a key, appended otherwise
Put(d, k, v) ==
    IF Has(d, k) THEN [d EXCEPT ![KeyIdx(d, k)] = <<k, v>>]
    ELSE Append(d, <<k, v>>)

\* d.setdefault(k, dflt)
SetDefault(d, k, dflt) == IF Has(d, k) THEN d ELSE Append(d, <<k, dflt>>)

(***************************************************************************)
(* The brain and the learning functions.                                   *)
(***************************************************************************)
\* the weight 1.0
Unit == 1000 * 1000

\* weight_inc of update_word_connections as chat_endpoint passes it: 1.0
WORD_INC == Unit

\* weight_inc of update_letter_connections as chat_endpoint passes it: 0.05
LETTER_INC == Unit \div 20

MAX_TONE_LEN == 30

default_brain ==
    [context |-> <<>>, words |-> <<>>, letters |-> <<>>,
     meta |-> << <<"tone", "neutral">> >>]

\* the characters of a word, list(word)
Chars(word) == [i \in 1..Len(word) |-> Char(word, i)]

\* graph[a][b] = graph[a].get(b, 0.0) + inc, after graph.setdefault(a, {})
AddPair(graph, a, b, inc) ==
    LET g1 == SetDefault(graph, a, <<>>)
    IN  Put(g1, a, Put(Get(g1, a), b, GetOr(Get(g1, a), b, 0) + inc))

\* the loop over the adjacent pairs (items[i], items[i+1]), in order
AddPairs(graph, items, inc) ==
    LET n == IF Len(items) > 0 THEN Len(items) - 1 ELSE 0
        G[i \in 0..n] ==
            IF i = 0 THEN graph
            ELSE LET prev == G[i - 1]
                 IN  IF Len(prev) >= 0
                     THEN AddPair(prev, items[i], items[i + 1], inc)
                     ELSE prev
    IN  G[n]

update_word_connections(brain, text, weight_inc) ==
    LET ws == Split(Strip(text))
        lw == [i \in 1..Len(ws) |-> Lower(ws[i])]
    IN  [brain EXCEPT !.words = AddPairs(brain.words, lw, weight_inc)]

update_letter_connections(brain, text, weight_inc) ==
    LET ws == Split(Strip(text))
        L[k \in 0..Len(ws)] ==
            IF k = 0 THEN brain.letters
            ELSE LET prev == L[k - 1]
                 IN  IF Len(prev) >= 0
                     THEN AddPairs(prev, Chars(ws[k]), weight_inc)
                     ELSE prev
    IN  [brain EXCEPT !.letters = L[Len(ws)]]

\* "my name is" followed by no token: split()[0] of an empty list raises
\* IndexError
LearnContextFaults(text) ==
    LET tl == Lower(text)
    IN  /\ Contains("my name is", tl)
        /\ Len(Split(Strip(AfterLast("my name is", tl)))) = 0

RECURSIVE SeqIndex(_, _, _)
\* list.index(x): the least index >= i of x in seq, or 0
SeqIndex(seq, x, i) ==
    IF i > Len(seq) THEN 0
    ELSE IF seq[i] = x THEN i ELSE SeqIndex(seq, x, i + 1)

\* the context after learn_context_from_text, for a text that does not fault
learn_context_from_text(brain, text) ==
    LET tl    == Lower(text)
        words == Split(tl)
        c1 == IF Contains("my name is", tl)
              THEN Put(brain.context, "name",
                       Split(Strip(AfterLast("my name is", tl)))[1])
              ELSE IF Contains("i am", tl) /\ InSeq("am", words)
              THEN LET i == SeqIndex(words, "am", 1)
                   IN  IF i + 1 <= Len(words)
                       THEN Put(brain.context, "you", words[i + 1])
                       ELSE brain.context
              ELSE brain.context
        c2 == IF Len(words) > 2 /\ words[1] = "i" /\ words[2] \in {"like", "love"}
              THEN Put(c1, "likes", words[3])
              ELSE c1
    IN  [brain EXCEPT !.context = c2]

\* the weight is left as it is
DecayWeightOff(w) == w

\* the factor is 1.003: the weight grows
DecayWeightGrows(w) == w + ((3 * w + 500) \div 1000)

\* max(0.0, w * 0.997), rounded to the nearest millionth
DecayWeight(w) ==
    LET d == w - ((3 * w + 500) \div 1000)
    IN  IF d < 0 THEN 0 ELSE d

\* the decay loop of chat_endpoint
DecayWords(brain) ==
    [brain EXCEPT !.words =
       [i \in 1..Len(brain.words) |->
          <<brain.words[i][1],
            [j \in 1..Len(brain.words[i][2]) |->
               <<brain.words[i][2][j][1], DecayWeight(brain.words[i][2][j][2])>>]>>]]

\* chat_endpoint's learning: context, words, letters, then decay
Ingest(brain, message) ==
    DecayWords(
      update_letter_connections(
        update_word_connections(
          learn_context_from_text(brain, message), message, WORD_INC),
        message, LETTER_INC))

(***************************************************************************)
(* Inference: prediction, sentence building, tone.                         *)
(***************************************************************************)
\* sum(d.values())
TotalWeight(d) ==
    LET S[i \in 0..Len(d)] == IF i = 0 THEN 0 ELSE S[i - 1] + d[i][2]
    IN  S[Len(d)]

\* max(d, key=d.get): the first key, in insertion order, of the greatest value
ArgMaxKey(d) ==
    LET i == CHOOSE k \in 1..Len(d) :
                /\ \A j \in 1..Len(d) : d[j][2] <= d[k][2]
                /\ \A j \in 1..(k - 1) : d[j][2] < d[k][2]
    IN  d[i][1]

\* predict_next_word takes the word-graph branch
HasWordEdges(brain, word) ==
    /\ Has(brain.words, Lower(word))
    /\ Len(Get(brain.words, Lower(word))) > 0

\* random.choices raises ValueError when the weights sum to zero
PredictFaults(brain, word) ==
    /\ HasWordEdges(brain, word)
    /\ TotalWeight(Get(brain.words, Lower(word))) = 0

\* the values predict_next_word can return, for a call that does not fault:
\* random.choices draws a successor of positive weight
predict_next_word(brain, word) ==
    LET w == Lower(word)
    IN  IF HasWordEdges(brain, word)
        THEN LET d == Get(brain.words, w)
             IN  {d[i][1] : i \in {j \in 1..Len(d) : d[j][2] > 0}}
        ELSE IF Len(w) > 0 /\ Has(brain.letters, Char(w, Len(w)))
        THEN {w \o ArgMaxKey(Get(brain.letters, Char(w, Len(w))))}
        ELSE {"?"}

\* the loop breaks on an empty prediction only
LoopBreaksOnEmptyOnly(sentence, nxt) == nxt = ""

\* build_sentence_from's test on the prediction nxt: the loop breaks, or
\* appends nxt and goes on from it
LoopBreaks(sentence, nxt) == nxt = "" \/ InSeq(nxt, sentence)

RECURSIVE BuildFrom(_, _, _, _)
\* the lists the loop can end with, n passes being left
BuildFrom(brain, sentence, current, n) ==
    IF n <= 0 THEN {sentence}
    ELSE UNION {IF LoopBreaks(sentence, nxt) THEN {sentence}
                ELSE BuildFrom(brain, Append(sentence, nxt), nxt, n - 1) :
                nxt \in predict_next_word(brain, current)}

DEFAULT_MAX_LEN == 8

\* the strings build_sentence_from(brain, start_word, max_len) can return
build_sentence_from(brain, start_word, max_len) ==
    {Join(sn) : sn \in BuildFrom(brain, <<start_word>>, start_word, max_len - 1)}

\* brain["meta"]["tone"]
Tone(brain) == Get(brain.meta, "tone")

\* the tones the source names (default_brain's comment, apply_tone's cases)
ToneNames == {"neutral", "friendly", "formal", "funny"}

\* the two decorative markers (emoji in the source)
Smile == "(smile)"

Joy == "(joy)"

\* a or b, for strings
StrOr(a, b) == IF a # "" THEN a ELSE b

apply_tone(user_brain, base_text) ==
    LET tone == GetOr(user_brain.meta, "tone", "neutral")
        name == StrOr(GetOr(user_brain.context, "name", ""),
                      GetOr(user_brain.context, "you", ""))
    IN  IF tone = "friendly"
        THEN (IF name # "" THEN "Hey " \o name \o "! " \o base_text \o " " \o Smile
              ELSE base_text \o " " \o Smile)
        ELSE IF tone = "funny" THEN base_text \o " " \o Joy
        ELSE IF tone = "formal"
        THEN (IF name # "" THEN "Hello " \o name \o ". " \o base_text
              ELSE base_text)
        ELSE base_text

(***************************************************************************)
(* Teacher control.                                                        *)
(***************************************************************************)
\* the tone is written without the cut to MAX_TONE_LEN
teacher_update_uncut(brain, command) ==
    LET cmd == Strip(command)
    IN  IF Contains("=", cmd)
        THEN LET kv == SplitOnce("=", cmd)
                 k  == Strip(kv[1])
                 v  == Strip(kv[2])
             IN  IF k = "tone"
                 THEN [brain  |-> [brain EXCEPT !.meta = Put(brain.meta, "tone", v)],
                       result |-> "tone set to " \o v]
                 ELSE [brain  |-> [brain EXCEPT !.context = Put(brain.context, k, v)],
                       result |-> "context " \o k \o " set to " \o v]
        ELSE [brain |-> brain, result |-> "invalid command"]

\* a command without "=" is taken as a key with an empty value
teacher_update_keyonly(brain, command) ==
    LET cmd == Strip(command)
        i   == Find("=", cmd, 1)
        k   == Strip(IF i = 0 THEN cmd ELSE SubSeq(cmd, 1, i - 1))
        v   == Strip(IF i = 0 THEN "" ELSE SubSeq(cmd, i + 1, Len(cmd)))
    IN  IF k = "tone"
        THEN [brain  |-> [brain EXCEPT
                            !.meta = Put(brain.meta, "tone", Take(v, MAX_TONE_LEN))],
              result |-> "tone set to " \o v]
        ELSE [brain  |-> [brain EXCEPT !.context = Put(brain.context, k, v)],
              result |-> "context " \o k \o " set to " \o v]

\* the brain after teacher_update(brain, command) and the string it returns
teacher_update(brain, command) ==
    LET cmd == Strip(command)
    IN  IF Contains("=", cmd)
        THEN LET kv == SplitOnce("=", cmd)
                 k  == Strip(kv[1])
                 v  == Strip(kv[2])
             IN  IF k = "tone"
                 THEN [brain  |-> [brain EXCEPT
                                     !.meta = Put(brain.meta, "tone",
                                                  Take(v, MAX_TONE_LEN))],
                       result |-> "tone set to " \o v]
                 ELSE [brain  |-> [brain EXCEPT !.context = Put(brain.context, k, v)],
                       result |-> "context " \o k \o " set to " \o v]
        ELSE [brain |-> brain, result |-> "invalid command"]

(***************************************************************************)
(* The store: files, the lock, and the objects in memory.                  *)
(*   fs       file name -> file; a file is absent, a complete document, a  *)
(*            partly written one, or one that is not a brain document      *)
(*   lock     the request inside a "with lock" block, or 0                 *)
(*   running  the handler the event loop is executing, or 0                *)
(*   req      the requests: input, position in the handler, result         *)
(*   heap     the brain objects in memory; a request holds an index        *)
(*   durable  path -> the document of the last save that returned          *)
(*   order    the requests in the order their handlers ended               *)
(***************************************************************************)
MEMORY_DIR == "user_brains"

RECURSIVE Safe(_)
\* "".join(c for c in user_id if c.isalnum() or c in "-_")
Safe(user_id) ==
    IF Len(user_id) = 0 THEN ""
    ELSE (IF IsAlnum(Head(user_id)) \/ Head(user_id) \in {"-", "_"}
          THEN Head(user_id) ELSE "") \o Safe(Tail(user_id))

\* every user's document is one file
user_path_shared(user_id) == MEMORY_DIR \o "/brain.json"

user_path(user_id) == MEMORY_DIR \o "/" \o Safe(user_id) \o ".json"

\* str.endswith
EndsWith(s, suffix) ==
    /\ Len(s) >= Len(suffix)
    /\ SubSeq(s, Len(s) - Len(suffix) + 1, Len(s)) = suffix

\* list_user_ids() over a directory state: the names ending in ".json",
\* without the extension
list_user_ids(files) ==
    {SubSeq(f, Len(MEMORY_DIR) + 2, Len(f) - 5) :
       f \in {g \in DOMAIN files : files[g].st # "none" /\ EndsWith(g, ".json")}}

\* save_brain writes the document in place
TmpPathInPlace(path) == path

\* the file save_brain writes before the replace
TmpPath(path) == path \o ".tmp"

\* str(payload.get("user_id", dflt)).strip() or dflt
CleanUser(user_id, dflt) == StrOr(Strip(user_id), dflt)

Nothing == [context |-> <<>>, words |-> <<>>, letters |-> <<>>, meta |-> <<>>]

NoFile == [st |-> "none", doc |-> Nothing]

Partial == [st |-> "partial", doc |-> Nothing]

\* the base of a request that has not run load_brain
Unread == [st |-> "unread", doc |-> Nothing]

Garbage == [st |-> "garbage", doc |-> Nothing]

\* what json.dump(brain) followed by a close leaves in a file
DocFile(brain) == [st |-> "doc", doc |-> brain]

\* os.path.exists(path)
Exists(path) == fs[path].st # "none"

\* default_brain() hands out one object again and again
AllocShared(h) ==
    IF Len(h) > 0 THEN [heap |-> h, ref |-> 1]
    ELSE [heap |-> Append(h, default_brain), ref |-> 1]

\* default_brain() builds a new object on each call
AllocDefault(h) == [heap |-> Append(h, default_brain), ref |-> Len(h) + 1]

(***************************************************************************)
(* Inputs and bounds.                                                      *)
(***************************************************************************)
MaxReq == 2

MaxCrashes == 1

Req == 1..MaxReq

UserIds == {"ann", "b.ob"}

ChatTexts == {"My name is Ava", "what is my name", "hello there", " "}

TeachCmds == {"tone=funny", "name=Anwar", "bogus"}

Tones == {"friendly", "silly"}

API_KEY == "supersecretkey"

\* the X-API-KEY header of a /memory request: the key, or none
MemoryKeys == {API_KEY, ""}

Inputs ==
    ({"chat"} \X ChatTexts) \cup ({"teach"} \X TeachCmds)
      \cup ({"set_tone"} \X Tones) \cup ({"memory"} \X MemoryKeys)

Paths == {user_path(u) : u \in UserIds}

Files == Paths \cup {TmpPath(p) : p \in Paths}

\* a document an earlier run of the server saved: tone friendly, "i am bob"
PriorBrain ==
    Ingest([default_brain EXCEPT !.meta = Put(@, "tone", "friendly")], "i am bob")

NoRequest ==
    [kind |-> "none", user |-> "", arg |-> "", pc |-> "none", ref |-> 0,
     base |-> Unread, loaded |-> Nothing, reply |-> "", body |-> <<>>,
     out |-> "", fault |-> "", saved |-> FALSE, conc |-> FALSE]

InitCommon ==
    /\ lock = 0
    /\ running = 0
    /\ req = [r \in Req |-> NoRequest]
    /\ heap = <<>>
    /\ order = <<>>
    /\ crashes = 0
    /\ gen = [pc |-> "off"]
    /\ tch = [pc |-> "off"]
    /\ ing = [pc |-> "off"]
    /\ prd = [pc |-> "off"]

\* the directory holds no document, or one of ann's from an earlier run
Init ==
    /\ InitCommon
    /\ \E f \in {NoFile, DocFile(PriorBrain)} :
          fs = [p \in Files |-> IF p = user_path("ann") THEN f ELSE NoFile]
    /\ durable = [p \in Paths |-> fs[p]]

\* ann's document was damaged while the server was down
InitCorrupt ==
    /\ InitCommon
    /\ fs = [p \in Files |-> IF p = user_path("ann") THEN Garbage ELSE NoFile]
    /\ durable = [p \in Paths |-> fs[p]]

(***************************************************************************)
(* The request handlers.  Each is a coroutine without an await: once the   *)
(* event loop has started it, no other handler runs until it has ended.    *)
(***************************************************************************)
\* handlers run on worker threads: any of them may take its next step
ScheduledOnThreads(r) == TRUE

\* the event loop runs request r's handler, or is free to start it
Scheduled(r) == running \in {0, r}

Brain(r) == heap[req[r].ref]

\* message, cmd or tone as the handler reads it from the payload
Arg(r) == Strip(req[r].arg)

PathOf(r) == user_path(req[r].user)

\* the payload a handler rejects with status 400 before it loads anything
Rejected(kind, arg) == kind \in {"chat", "teach"} /\ Strip(arg) = ""

DefaultUser(kind) == IF kind = "teach" THEN "global" ELSE "guest"

\* what follows load_brain in each handler
AfterLoad(kind) ==
    IF kind = "chat" THEN "ingest"
    ELSE IF kind \in {"teach", "set_tone"} THEN "apply"
    ELSE "return"

\* a client sends a request; requests are numbered in order of arrival
Arrive(r, kind, user, arg) ==
    /\ req[r].pc = "none"
    /\ \A q \in Req : q < r => req[q].pc # "none"
    /\ req' = [req EXCEPT ![r] = [@ EXCEPT !.kind = kind, !.user = user,
                                           !.arg = arg, !.pc = "queued"]]
    /\ UNCHANGED <<fs, lock, running, heap, durable, order, crashes, gen, tch, ing, prd>>

\* the event loop starts the handler: it reads the payload and either
\* rejects it or goes on to load_brain
Start(r) ==
    /\ req[r].pc = "queued"
    /\ Scheduled(r)
    /\ LET conc == \E q \in Req \ {r} : req[q].pc \notin {"none", "done"}
           user == IF req[r].kind = "memory" THEN req[r].user
                   ELSE CleanUser(req[r].user, DefaultUser(req[r].kind))
       IN  IF Rejected(req[r].kind, req[r].arg)
           THEN /\ req' = [req EXCEPT ![r] = [@ EXCEPT !.pc = "done",
                                                     !.out = "rejected"]]
                /\ order' = Append(order, r)
                /\ UNCHANGED running
           ELSE /\ req' = [req EXCEPT ![r] = [@ EXCEPT !.pc = "load",
                                                     !.user = user,
                                                     !.conc = conc]]
                /\ running' = r
                /\ UNCHANGED order
    /\ UNCHANGED <<fs, lock, heap, durable, crashes, gen, tch, ing, prd>>

\* load_brain: the document when the file exists (json.load raises on a file
\* that is no document), default_brain() otherwise
Load(r) ==
    /\ req[r].pc = "load"
    /\ Scheduled(r)
    /\ LET f == fs[PathOf(r)]
       IN  IF ~Exists(PathOf(r))
           THEN LET a == AllocDefault(heap)
                IN  /\ heap' = a.heap
                    /\ req' = [req EXCEPT ![r] =
                                 [@ EXCEPT !.ref = a.ref, !.base = f,
                                           !.loaded = a.heap[a.ref],
                                           !.pc = AfterLoad(req[r].kind)]]
           ELSE /\ lock = 0
                /\ IF f.st = "doc"
                   THEN /\ heap' = Append(heap, f.doc)
                        /\ req' = [req EXCEPT ![r] =
                                     [@ EXCEPT !.ref = Len(heap) + 1, !.base = f,
                                               !.loaded = f.doc,
                                               !.pc = AfterLoad(req[r].kind)]]
                   ELSE /\ heap' = heap
                        /\ req' = [req EXCEPT ![r] =
                                     [@ EXCEPT !.base = f, !.pc = "failed",
                                               !.fault = "load"]]
    /\ UNCHANGED <<fs, lock, running, durable, order, crashes, gen, tch, ing, prd>>

\* chat_endpoint's learning, on the loaded object
ChatIngest(r) ==
    /\ req[r].pc = "ingest"
    /\ Scheduled(r)
    /\ IF LearnContextFaults(Arg(r))
       THEN /\ req' = [req EXCEPT ![r] = [@ EXCEPT !.pc = "failed",
                                                 !.fault = "ingest"]]
            /\ heap' = heap
       ELSE /\ heap' = [heap EXCEPT ![req[r].ref] = Ingest(@, Arg(r))]
            /\ req' = [req EXCEPT ![r] = [@ EXCEPT !.pc = "respond"]]
    /\ UNCHANGED <<fs, lock, running, durable, order, crashes, gen, tch, ing, prd>>

IsIdentityQuery(message) ==
    LET tl == Lower(message)
    IN  \/ Contains("who am i", tl)
        \/ Contains("who i am", tl)
        \/ Contains("what is my name", tl)

UnknownName == "I don't know your name yet. You can say: 'My name is ...'"

\* the identity branch: with a known name the handler goes on to save_brain,
\* without one it returns the reply at once
RespondIdentity(r) ==
    /\ req[r].pc = "respond"
    /\ Scheduled(r)
    /\ IsIdentityQuery(Arg(r))
    /\ LET name == StrOr(GetOr(Brain(r).context, "you", ""),
                         GetOr(Brain(r).context, "name", ""))
       IN  IF name # ""
           THEN req' = [req EXCEPT ![r] =
                          [@ EXCEPT !.reply = apply_tone(Brain(r),
                                        "Your name is " \o name \o "."),
                                    !.pc = "save"]]
           ELSE req' = [req EXCEPT ![r] =
                          [@ EXCEPT !.reply = apply_tone(Brain(r), UnknownName),
                                    !.pc = "return"]]
    /\ UNCHANGED <<fs, lock, running, heap, durable, order, crashes, gen, tch, ing, prd>>

Fillers == {"Tell me more.", "Interesting.", "I see.", "Okay."}

\* the predictor branch: a sentence built from the last token, or a filler
RespondGenerate(r) ==
    /\ req[r].pc = "respond"
    /\ Scheduled(r)
    /\ ~IsIdentityQuery(Arg(r))
    /\ LET words == Split(Arg(r))
           start == words[Len(words)]
       IN  \E predicted \in build_sentence_from(Brain(r), start, DEFAULT_MAX_LEN) :
             \E base_reply \in (IF predicted # "" /\ predicted # start
                                THEN {predicted} ELSE Fillers) :
               req' = [req EXCEPT ![r] =
                         [@ EXCEPT !.reply = apply_tone(Brain(r), base_reply),
                                   !.pc = "save"]]
    /\ UNCHANGED <<fs, lock, running, heap, durable, order, crashes, gen, tch, ing, prd>>

\* teach_endpoint: teacher_update on the loaded object
TeachApply(r) ==
    /\ req[r].pc = "apply"
    /\ req[r].kind = "teach"
    /\ Scheduled(r)
    /\ LET res == teacher_update(Brain(r), Arg(r))
       IN  /\ heap' = [heap EXCEPT ![req[r].ref] = res.brain]
           /\ req' = [req EXCEPT ![r] = [@ EXCEPT !.reply = res.result,
                                                 !.pc = "save"]]
    /\ UNCHANGED <<fs, lock, running, durable, order, crashes, gen, tch, ing, prd>>

\* set_tone_endpoint: the tone, cut to MAX_TONE_LEN, written into meta
SetToneApply(r) ==
    /\ req[r].pc = "apply"
    /\ req[r].kind = "set_tone"
    /\ Scheduled(r)
    /\ LET tone == Take(Arg(r), MAX_TONE_LEN)
       IN  /\ heap' = [heap EXCEPT ![req[r].ref] =
                         [@ EXCEPT !.meta = Put(@, "tone", tone)]]
           /\ req' = [req EXCEPT ![r] = [@ EXCEPT !.reply = tone, !.pc = "save"]]
    /\ UNCHANGED <<fs, lock, running, durable, order, crashes, gen, tch, ing, prd>>

(***************************************************************************)
(* save_brain, statement by statement, with the ways each can fail.        *)
(***************************************************************************)
\* the lock is released on the normal path only
ExitOnErrorLeak(r) == r

\* the lock once an exception has left a "with lock" block that request r
\* had entered: released
ExitOnError(r) == 0

\* with lock: open(tmp, "w") creates or truncates the temporary file
SaveOpen(r) ==
    /\ req[r].pc = "save"
    /\ Scheduled(r)
    /\ lock = 0
    /\ lock' = r
    /\ fs' = [fs EXCEPT ![TmpPath(PathOf(r))] = Partial]
    /\ req' = [req EXCEPT ![r] = [@ EXCEPT !.pc = "write"]]
    /\ UNCHANGED <<running, heap, durable, order, crashes, gen, tch, ing, prd>>

\* open raises OSError; leaving the with block releases the lock
SaveOpenFails(r) ==
    /\ req[r].pc = "save"
    /\ Scheduled(r)
    /\ lock = 0
    /\ lock' = ExitOnError(r)
    /\ req' = [req EXCEPT ![r] = [@ EXCEPT !.pc = "failed", !.fault = "save"]]
    /\ UNCHANGED <<fs, running, heap, durable, order, crashes, gen, tch, ing, prd>>

\* json.dump writes the whole document and the file is closed
SaveWrite(r) ==
    /\ req[r].pc = "write"
    /\ Scheduled(r)
    /\ lock = r
    /\ fs' = [fs EXCEPT ![TmpPath(PathOf(r))] = DocFile(Brain(r))]
    /\ req' = [req EXCEPT ![r] = [@ EXCEPT !.pc = "replace"]]
    /\ UNCHANGED <<lock, running, heap, durable, order, crashes, gen, tch, ing, prd>>

\* json.dump or the write raises part way; both with blocks are left
SaveWriteFails(r) ==
    /\ req[r].pc = "write"
    /\ Scheduled(r)
    /\ lock = r
    /\ lock' = ExitOnError(r)
    /\ req' = [req EXCEPT ![r] = [@ EXCEPT !.pc = "failed", !.fault = "save"]]
    /\ UNCHANGED <<fs, running, heap, durable, order, crashes, gen, tch, ing, prd>>

\* os.replace(tmp, path), then the lock is released and save_brain returns
SaveReplace(r) ==
    /\ req[r].pc = "replace"
    /\ Scheduled(r)
    /\ lock = r
    /\ lock' = 0
    /\ fs' = [f \in Files |->
                IF f = PathOf(r) THEN fs[TmpPath(PathOf(r))]
                ELSE IF f = TmpPath(PathOf(r)) THEN NoFile
                ELSE fs[f]]
    /\ durable' = [durable EXCEPT ![PathOf(r)] = DocFile(Brain(r))]
    /\ req' = [req EXCEPT ![r] = [@ EXCEPT !.saved = TRUE, !.pc = "return"]]
    /\ UNCHANGED <<running, heap, order, crashes, gen, tch, ing, prd>>

\* os.replace raises OSError; the lock is released
SaveReplaceFails(r) ==
    /\ req[r].pc = "replace"
    /\ Scheduled(r)
    /\ lock = r
    /\ lock' = ExitOnError(r)
    /\ req' = [req EXCEPT ![r] = [@ EXCEPT !.pc = "failed", !.fault = "save"]]
    /\ UNCHANGED <<fs, running, heap, durable, order, crashes, gen, tch, ing, prd>>

\* the exception leaves the handler: the caller gets an error response
Raise(r) ==
    /\ req[r].pc = "failed"
    /\ Scheduled(r)
    /\ req' = [req EXCEPT ![r] = [@ EXCEPT !.pc = "done", !.out = "error"]]
    /\ running' = 0
    /\ order' = Append(order, r)
    /\ UNCHANGED <<fs, lock, heap, durable, crashes, gen, tch, ing, prd>>

\* memory_endpoint returns the brain to every caller
MemoryViewFull(brain, api_key) ==
    << <<"context", brain.context>>, <<"words", brain.words>>,
       <<"letters", brain.letters>>, <<"meta", brain.meta>> >>

\* what memory_endpoint returns: the brain to the key holder, context and
\* meta to anyone else
MemoryView(brain, api_key) ==
    IF api_key = API_KEY
    THEN << <<"context", brain.context>>, <<"words", brain.words>>,
            <<"letters", brain.letters>>, <<"meta", brain.meta>> >>
    ELSE << <<"context", brain.context>>, <<"meta", brain.meta>> >>

\* the handler returns its response
Return(r) ==
    /\ req[r].pc = "return"
    /\ Scheduled(r)
    /\ req' = [req EXCEPT ![r] =
                 [@ EXCEPT !.pc = "done", !.out = "ok",
                           !.body = IF req[r].kind = "memory"
                                    THEN MemoryView(Brain(r), req[r].arg)
                                    ELSE <<>>]]
    /\ running' = 0
    /\ order' = Append(order, r)
    /\ UNCHANGED <<fs, lock, heap, durable, crashes, gen, tch, ing, prd>>

\* the process dies and is started again: the requests in flight are lost
\* and the lock is free, the files stay as they are
Crash ==
    /\ crashes < MaxCrashes
    /\ \E r \in Req : req[r].pc \notin {"none", "queued", "done"}
    /\ crashes' = crashes + 1
    /\ req' = [r \in Req |->
                 IF req[r].pc \in {"none", "done"} THEN req[r]
                 ELSE [req[r] EXCEPT !.pc = "done", !.out = "lost"]]
    /\ lock' = 0
    /\ running' = 0
    /\ UNCHANGED <<fs, heap, durable, order, gen, tch, ing, prd>>

Next ==
    \/ \E r \in Req, u \in UserIds, i \in Inputs : Arrive(r, i[1], u, i[2])
    \/ \E r \in Req : Start(r)
    \/ \E r \in Req : Load(r)
    \/ \E r \in Req : ChatIngest(r)
    \/ \E r \in Req : RespondIdentity(r)
    \/ \E r \in Req : RespondGenerate(r)
    \/ \E r \in Req : TeachApply(r)
    \/ \E r \in Req : SetToneApply(r)
    \/ \E r \in Req : SaveOpen(r)
    \/ \E r \in Req : SaveOpenFails(r)
    \/ \E r \in Req : SaveWrite(r)
    \/ \E r \in Req : SaveWriteFails(r)
    \/ \E r \in Req : SaveReplace(r)
    \/ \E r \in Req : SaveReplaceFails(r)
    \/ \E r \in Req : Raise(r)
    \/ \E r \in Req : Return(r)
    \/ Crash

Spec == Init /\ [][Next]_vars

SpecCorrupt == InitCorrupt /\ [][Next]_vars

(***************************************************************************)
(* Properties of the store and the handlers.                               *)
(***************************************************************************)
SaveStages == {"save", "write", "replace"}

\* C1: no update is lost.  A request that is about to save, or is saving,
\* built its brain from the document that is still the persisted one: no
\* other request's save has replaced it since the load.  And when its save
\* has returned, the persisted document is the brain it built.
C1_NoStaleSave ==
    \A r \in Req :
      /\ req[r].pc \in SaveStages => fs[PathOf(r)] = req[r].base
      /\ (req[r].pc = "return" /\ req[r].saved)
            => fs[PathOf(r)] = DocFile(Brain(r))

\* two requests for one user were pending together and both have saved
C1_ConcurrentSavesDone ==
    \E r1, r2 \in Req :
      /\ r1 # r2
      /\ req[r1].user = req[r2].user
      /\ req[r1].conc
      /\ req[r1].kind = "chat" /\ req[r2].kind = "teach"
      /\ req[r1].out = "ok" /\ req[r1].saved
      /\ req[r2].out = "ok" /\ req[r2].saved

\* C2: the file at a user's path is absent or a complete document, the one of
\* the last save that returned (or the one found at start), also after a
\* crash in the middle of a save; it is never a partly written document.
C2_TargetAlwaysComplete ==
    \A p \in Paths :
      /\ fs[p].st \in {"none", "doc"}
      /\ fs[p] = durable[p]

\* the process died after the temporary file was written and before the
\* replace: the temporary file holds the new document, the path the old one
C2_CrashedBeforeReplace ==
    \E r \in Req :
      /\ req[r].out = "lost"
      /\ req[r].ref # 0
      /\ crashes > 0
      /\ fs[TmpPath(PathOf(r))] = DocFile(Brain(r))
      /\ fs[PathOf(r)] = req[r].base
      /\ fs[PathOf(r)] # DocFile(Brain(r))

\* C3: a save that fails, at the open, the write or the replace, ends the
\* request with an error, leaves the user's document as it was before the
\* call, and leaves the lock free.
C3_FailedSaveKeepsDocument ==
    \A r \in Req :
      req[r].fault = "save" =>
        /\ req[r].pc \in {"failed", "done"}
        /\ ~req[r].saved
        /\ req[r].pc = "failed" => (fs[PathOf(r)] = req[r].base /\ lock = 0)
        /\ req[r].pc = "done" => req[r].out \in {"error", "lost"}

\* a save of a user with a document failed and the caller got the error; a
\* later request of the same user then saved
C3_FailedThenLaterSaved ==
    \E r, q \in Req :
      /\ req[r].fault = "save" /\ req[r].out = "error"
      /\ req[r].base.st = "doc"
      /\ order = <<r, q>>
      /\ req[q].user = req[r].user
      /\ req[q].out = "ok" /\ req[q].saved

\* C4: a load of a user whose file is no brain document returns the default
\* brain and does not fault.
C4_MalformedLoadsDefault ==
    \A r \in Req :
      (req[r].base.st \in {"garbage", "partial"})
        => (req[r].fault # "load" /\ req[r].loaded = default_brain)

\* C5: a load of a user without a file does not fault and returns the default
\* brain, in an object no other request holds; /memory returns its view of
\* the default brain.
C5_UnseenUserReadsDefault ==
    \A r \in Req :
      req[r].base.st = "none"
        => /\ req[r].fault # "load"
           /\ req[r].ref # 0
           /\ req[r].loaded = default_brain
           /\ \A q \in Req \ {r} : req[q].ref # req[r].ref
           /\ (req[r].kind = "memory" /\ req[r].out = "ok")
                 => req[r].body = MemoryView(default_brain, req[r].arg)

\* a chat of one user has changed its brain and ended; then /memory read a
\* user who has no file
C5_ReadAfterOtherUsersChat ==
    \E r1, r2 \in Req :
      /\ order = <<r1, r2>>
      /\ req[r1].kind = "chat" /\ req[r1].out = "ok"
      /\ Brain(r1) # default_brain
      /\ req[r2].kind = "memory" /\ req[r2].out = "ok"
      /\ req[r2].base.st = "none"

\* C6: a chat request that returns a reply has saved the brain.
C6_ReplyImpliesSaved ==
    \A r \in Req :
      (req[r].kind = "chat" /\ req[r].out = "ok") => req[r].saved

\* C7: "My name is Ava" and then "what is my name", both answered, for one
\* user: the second reply contains "Ava".
C7_NameRecalledAsTyped ==
    \A i \in 1..(Len(order) - 1) :
      LET a == order[i]
          b == order[i + 1]
      IN  ( /\ req[a].kind = "chat" /\ req[b].kind = "chat"
            /\ req[a].user = req[b].user
            /\ req[a].out = "ok" /\ req[b].out = "ok"
            /\ Strip(req[a].arg) = "My name is Ava"
            /\ Strip(req[b].arg) = "what is my name" )
          => Contains("Ava", req[b].reply)

\* the brain a request read from the store
ReadBrain(r) == IF req[r].base.st = "doc" THEN req[r].base.doc ELSE default_brain

\* C11: /memory without the key returns the context and the meta (tone) of
\* the stored brain and nothing of its words and letters, so two brains that
\* differ only in words and letters give the same result; with the key it
\* returns the whole brain; and no step of a /memory request changes a file.
C11_MemoryViewLimited ==
    /\ [](\A r \in Req :
            (req[r].kind = "memory" /\ req[r].pc = "done" /\ req[r].out = "ok")
              => IF req[r].arg = API_KEY
                 THEN req[r].body =
                        << <<"context", ReadBrain(r).context>>,
                           <<"words", ReadBrain(r).words>>,
                           <<"letters", ReadBrain(r).letters>>,
                           <<"meta", ReadBrain(r).meta>> >>
                 ELSE req[r].body =
                        << <<"context", ReadBrain(r).context>>,
                           <<"meta", ReadBrain(r).meta>> >>)
    /\ [][\A r \in Req :
            (req[r].kind = "memory" /\ req'[r] # req[r])
              => fs' = fs /\ durable' = durable]_vars

\* the same stored brain, with learned words, was read without the key and
\* with it
C11_ReadWithAndWithoutKey ==
    \E r1, r2 \in Req :
      /\ req[r1].kind = "memory" /\ req[r1].out = "ok" /\ req[r1].arg # API_KEY
      /\ req[r2].kind = "memory" /\ req[r2].out = "ok" /\ req[r2].arg = API_KEY
      /\ ReadBrain(r1) = ReadBrain(r2)
      /\ ReadBrain(r1).words # <<>>
      /\ req[r1].body # req[r2].body

\* C12: the tone of every brain, in memory and in a file, is one of neutral,
\* friendly, formal, funny and has at most MAX_TONE_LEN characters.
C12_ToneEnumerated ==
    /\ \A i \in 1..Len(heap) :
          Tone(heap[i]) \in ToneNames /\ Len(Tone(heap[i])) <= MAX_TONE_LEN
    /\ \A f \in Files :
          fs[f].st = "doc"
            => Tone(fs[f].doc) \in ToneNames /\ Len(Tone(fs[f].doc)) <= MAX_TONE_LEN

\* the document and the temporary file of request r's user
OwnFiles(r) ==
    LET doc == MEMORY_DIR \o "/" \o Safe(req[r].user) \o ".json"
    IN  {doc, doc \o ".tmp"}

\* C19: a step changes only the document and the temporary file named by the
\* sanitized user id of the request whose handler runs, and list_user_ids
\* changes by that id at most.
C19_OnlyOwnDocumentChanges ==
    [][\A f \in Files :
         fs'[f] # fs[f]
           => \E r \in Req :
                /\ running = r
                /\ req[r].kind \in {"chat", "teach", "set_tone"}
                /\ f \in OwnFiles(r)
                /\ list_user_ids(fs') \ {Safe(req[r].user)}
                     = list_user_ids(fs) \ {Safe(req[r].user)}]_vars

\* requests of two users have saved, and each document is the brain its own
\* request built
C19_TwoUsersSaved ==
    \E r1, r2 \in Req :
      /\ req[r1].saved /\ req[r2].saved
      /\ Safe(req[r1].user) # Safe(req[r2].user)
      /\ req[r1].user # Safe(req[r1].user) \/ req[r2].user # Safe(req[r2].user)
      /\ fs[PathOf(r1)] = DocFile(Brain(r1))
      /\ fs[PathOf(r2)] = DocFile(Brain(r2))
      /\ list_user_ids(fs) = {Safe(req[r1].user), Safe(req[r2].user)}

(***************************************************************************)
(* build_sentence_from on its own, one pass of its loop at a time.         *)
(*   gen  the call: brain, start word, max_len; the list built so far, the *)
(*        current word, the passes made and the calls of predict_next_word *)
(***************************************************************************)
GenTexts == {"aa ab", "a b c a c b a", "a b c d e f g h a", "Hello there hello"}

\* brains the server builds from one or two messages
GenBrains ==
    {Ingest(default_brain, t) : t \in GenTexts}
      \cup {Ingest(Ingest(default_brain, t1), t2) : t1, t2 \in GenTexts}

GenSeeds == {"a", "c", "aa", "Hello", "x", "?"}

GenMaxLens == 1..DEFAULT_MAX_LEN

GenInit ==
    /\ gen \in {[pc |-> "loop", brain |-> b, start |-> sd, max_len |-> m,
                 sentence |-> <<sd>>, current |-> sd, i |-> 0, calls |-> 0,
                 out |-> ""] :
                b \in GenBrains, sd \in GenSeeds, m \in GenMaxLens}
    /\ fs = [p \in Files |-> NoFile]
    /\ durable = [p \in Paths |-> NoFile]
    /\ lock = 0
    /\ running = 0
    /\ req = [r \in Req |-> NoRequest]
    /\ heap = <<>>
    /\ order = <<>>
    /\ crashes = 0
    /\ tch = [pc |-> "off"]
    /\ ing = [pc |-> "off"]
    /\ prd = [pc |-> "off"]

\* one pass of the for loop: predict, then break or append
GenPass ==
    /\ gen.pc = "loop"
    /\ gen.i < gen.max_len - 1
    /\ IF PredictFaults(gen.brain, gen.current)
       THEN gen' = [gen EXCEPT !.pc = "fault", !.calls = @ + 1]
       ELSE \E nxt \in predict_next_word(gen.brain, gen.current) :
              IF LoopBreaks(gen.sentence, nxt)
              THEN gen' = [gen EXCEPT !.pc = "done", !.calls = @ + 1,
                                      !.out = Join(gen.sentence)]
              ELSE gen' = [gen EXCEPT !.sentence = Append(@, nxt),
                                      !.current = nxt, !.i = @ + 1,
                                      !.calls = @ + 1]
    /\ UNCHANGED <<fs, lock, running, req, heap, durable, order, crashes, tch, ing, prd>>

\* range(max_len - 1) is used up: the sentence is joined and returned
GenExit ==
    /\ gen.pc = "loop"
    /\ gen.i >= gen.max_len - 1
    /\ gen' = [gen EXCEPT !.pc = "done", !.out = Join(gen.sentence)]
    /\ UNCHANGED <<fs, lock, running, req, heap, durable, order, crashes, tch, ing, prd>>

GenNext == GenPass \/ GenExit

SpecGen == GenInit /\ [][GenNext]_vars

\* C8: build_sentence_from ends for every seed and brain: it never faults or
\* sticks, calls predict_next_word at most max_len - 1 times, and its list
\* has at most max_len tokens, no two of them equal.
C8_GenerateBounded ==
    /\ gen.pc \in {"loop", "done"}
    /\ gen.pc = "loop" => ENABLED GenNext
    /\ gen.calls <= gen.max_len - 1
    /\ Len(gen.sentence) <= gen.max_len
    /\ \A i, j \in 1..Len(gen.sentence) :
          i # j => gen.sentence[i] # gen.sentence[j]
    /\ gen.pc = "done" => gen.out = Join(gen.sentence)

\* the bound is met on a cyclic word graph: max_len tokens after max_len - 1
\* predictions, the last word having successors that are already in the list
C8_BoundMetOnCycle ==
    /\ gen.pc = "done"
    /\ gen.max_len = DEFAULT_MAX_LEN
    /\ gen.calls = gen.max_len - 1
    /\ Len(gen.sentence) = gen.max_len
    /\ HasWordEdges(gen.brain, gen.current)
    /\ \A w \in predict_next_word(gen.brain, gen.current) : InSeq(w, gen.sentence)

\* C16: the sentinel "?" is never appended: a sentence holds it at no place
\* after the seed, and when the seed has no prediction the sentence is the
\* seed alone (so that the reply falls back to a filler).
C16_SentinelNotAppended ==
    /\ \A i \in 2..Len(gen.sentence) : gen.sentence[i] # "?"
    /\ (gen.pc = "done" /\ predict_next_word(gen.brain, gen.start) = {"?"})
          => gen.out = gen.start

(***************************************************************************)
(* teacher_update on its own.                                              *)
(*   tch  the brain, the last command, the brain before it and the string  *)
(*        it returned, and the number of commands applied                  *)
(***************************************************************************)
MaxTeach == 2

LongTone == "abcdefghijklmnopqrstuvwxyz01234"

TeachUpdateCmds ==
    {"tone=funny", "tone= funny ", " tone = formal", "tone=" \o LongTone,
     "name=Anwar", "likes = tea time ", "a=b=c", "=x", "bogus", "tone",
     "set tone funny"}

TeachBrains ==
    {default_brain, PriorBrain,
     Ingest([default_brain EXCEPT !.meta = Put(@, "tone", "funny")],
            "My name is Ava")}

TeachInit ==
    /\ tch \in {[pc |-> "idle", brain |-> b, before |-> b, cmd |-> "",
                 result |-> "", n |-> 0] : b \in TeachBrains}
    /\ fs = [p \in Files |-> NoFile]
    /\ durable = [p \in Paths |-> NoFile]
    /\ lock = 0
    /\ running = 0
    /\ req = [r \in Req |-> NoRequest]
    /\ heap = <<>>
    /\ order = <<>>
    /\ crashes = 0
    /\ gen = [pc |-> "off"]
    /\ ing = [pc |-> "off"]
    /\ prd = [pc |-> "off"]

\* a call teacher_update(brain, cmd)
TeachCall(cmd) ==
    /\ tch.n < MaxTeach
    /\ LET res == teacher_update(tch.brain, cmd)
       IN  tch' = [pc |-> "called", brain |-> res.brain, before |-> tch.brain,
                   cmd |-> cmd, result |-> res.result, n |-> tch.n + 1]
    /\ UNCHANGED <<fs, lock, running, req, heap, durable, order, crashes, gen, ing, prd>>

TeachNext == \E cmd \in TeachUpdateCmds : TeachCall(cmd)

SpecTeach == TeachInit /\ [][TeachNext]_vars

\* the other entries of a dict, in order
Without(d, k) == SelectSeq(d, LAMBDA e : e[1] # k)

\* C9 as stated: after "tone=v" the tone is v cut to MAX_TONE_LEN, v being
\* the text after the "=" as written, and context, words and letters are as
\* before; after any other "key=value" context[key] is value as written and
\* tone, words and letters are as before.
C9_ValueWrittenAsGiven ==
    (tch.pc = "called" /\ Contains("=", tch.cmd)) =>
      LET kv == SplitOnce("=", tch.cmd)
      IN  /\ tch.brain.words = tch.before.words
          /\ tch.brain.letters = tch.before.letters
          /\ IF kv[1] = "tone"
             THEN /\ Tone(tch.brain) = Take(kv[2], MAX_TONE_LEN)
                  /\ tch.brain.context = tch.before.context
             ELSE /\ Has(tch.brain.context, kv[1])
                  /\ Get(tch.brain.context, kv[1]) = kv[2]
                  /\ tch.brain.meta = tch.before.meta

\* C9 amended: key and value are the texts before and after the first "=",
\* each without its leading and trailing whitespace.  For the key "tone" the
\* tone becomes the value cut to MAX_TONE_LEN and context, words and letters
\* are as before; for any other key context[key] becomes the value, and the
\* other context entries, tone, words and letters are as before.
C9_TrimmedValueWritten ==
    (tch.pc = "called" /\ Contains("=", tch.cmd)) =>
      LET kv == SplitOnce("=", Strip(tch.cmd))
          k  == Strip(kv[1])
          v  == Strip(kv[2])
      IN  /\ tch.brain.words = tch.before.words
          /\ tch.brain.letters = tch.before.letters
          /\ Len(Tone(tch.brain)) <= MAX_TONE_LEN
          /\ IF k = "tone"
             THEN /\ Tone(tch.brain) = Take(v, MAX_TONE_LEN)
                  /\ tch.brain.context = tch.before.context
                  /\ tch.cmd = "tone=funny" => Tone(tch.brain) = "funny"
                  /\ tch.cmd = "tone= funny " => Tone(tch.brain) = "funny"
                  /\ tch.cmd = "tone=" \o LongTone
                        => Tone(tch.brain) = "abcdefghijklmnopqrstuvwxyz0123"
             ELSE /\ Has(tch.brain.context, k)
                  /\ Get(tch.brain.context, k) = v
                  /\ Without(tch.brain.context, k) = Without(tch.before.context, k)
                  /\ tch.brain.meta = tch.before.meta
                  /\ tch.cmd = "likes = tea time "
                        => Get(tch.brain.context, "likes") = "tea time"

\* a tone longer than MAX_TONE_LEN was written over a different tone
C9_LongToneCut ==
    /\ tch.pc = "called"
    /\ tch.cmd = "tone=" \o LongTone
    /\ Tone(tch.before) = "friendly"
    /\ Len(Tone(tch.brain)) = MAX_TONE_LEN
    /\ tch.before.context # <<>>

\* C10: a command without "=" returns "invalid command" and leaves context,
\* words, letters and tone as they were.
C10_NoSeparatorIsBenign ==
    (tch.pc = "called" /\ ~Contains("=", tch.cmd)) =>
      /\ tch.result = "invalid command"
      /\ tch.brain = tch.before

\* "bogus" was applied to a brain that holds context and learned words
C10_BogusOnLearnedBrain ==
    /\ tch.pc = "called"
    /\ tch.cmd = "bogus"
    /\ tch.result = "invalid command"
    /\ tch.before.context # <<>>
    /\ tch.before.words # <<>>

(***************************************************************************)
(* chat_endpoint's learning on its own, statement by statement.            *)
(*   ing  the brain; the message being ingested, the brain before it and   *)
(*        the brain just before the decay loop; the statements run for the *)
(*        message; the messages ingested so far                            *)
(***************************************************************************)
MaxIngest == 3

IngestTexts ==
    {"hello there friend", "hello there world", "see you", "a b a b",
     "I like that my name is Ava", "i love tea", "so i am", " my name is "}

\* a new user's brain, and one an earlier run saved
IngestBrains == {default_brain, PriorBrain}

\* decay runs before the reinforcement of the same message
IngestOrderDecayFirst(pc) ==
    IF pc = "context" THEN "decay"
    ELSE IF pc = "decay" THEN "words"
    ELSE IF pc = "words" THEN "letters"
    ELSE "idle"

\* the statement that follows in chat_endpoint: learn_context_from_text,
\* update_word_connections, update_letter_connections, the decay loop
IngestOrder(pc) ==
    IF pc = "context" THEN "words"
    ELSE IF pc = "words" THEN "letters"
    ELSE IF pc = "letters" THEN "decay"
    ELSE "idle"

IngestInit ==
    /\ ing \in {[pc |-> "idle", brain |-> b, start |-> b, before |-> b,
                 pre |-> b, msg |-> "", steps |-> <<>>, hist |-> <<>>] :
                b \in IngestBrains}
    /\ fs = [p \in Files |-> NoFile]
    /\ durable = [p \in Paths |-> NoFile]
    /\ lock = 0
    /\ running = 0
    /\ req = [r \in Req |-> NoRequest]
    /\ heap = <<>>
    /\ order = <<>>
    /\ crashes = 0
    /\ gen = [pc |-> "off"]
    /\ tch = [pc |-> "off"]
    /\ prd = [pc |-> "off"]

\* the handler has read and stripped a non-empty message and loaded the brain
IngestBegin(message) ==
    /\ ing.pc = "idle"
    /\ Len(ing.hist) < MaxIngest
    /\ Strip(message) # ""
    /\ ing' = [ing EXCEPT !.pc = "context", !.msg = Strip(message),
                          !.before = ing.brain, !.steps = <<>>]
    /\ UNCHANGED <<fs, lock, running, req, heap, durable, order, crashes,
                   gen, tch, prd>>

\* the brain after the statement pc names
IngestStep(brain, pc, msg) ==
    IF pc = "context" THEN learn_context_from_text(brain, msg)
    ELSE IF pc = "words" THEN update_word_connections(brain, msg, WORD_INC)
    ELSE IF pc = "letters" THEN update_letter_connections(brain, msg, LETTER_INC)
    ELSE DecayWords(brain)

\* one statement of the learning runs; after the last the message is done
IngestRun ==
    /\ ing.pc \in {"context", "words", "letters", "decay"}
    /\ ~(ing.pc = "context" /\ LearnContextFaults(ing.msg))
    /\ LET nxt == IngestOrder(ing.pc)
       IN  ing' = [ing EXCEPT
                     !.brain = IngestStep(ing.brain, ing.pc, ing.msg),
                     !.pre = IF ing.pc = "decay" THEN ing.brain ELSE @,
                     !.steps = Append(@, ing.pc),
                     !.hist = IF nxt = "idle" THEN Append(@, ing.msg) ELSE @,
                     !.pc = nxt]
    /\ UNCHANGED <<fs, lock, running, req, heap, durable, order, crashes,
                   gen, tch, prd>>

\* learn_context_from_text raises IndexError: the handler ends with an error
IngestFault ==
    /\ ing.pc = "context"
    /\ LearnContextFaults(ing.msg)
    /\ ing' = [ing EXCEPT !.pc = "fault"]
    /\ UNCHANGED <<fs, lock, running, req, heap, durable, order, crashes,
                   gen, tch, prd>>

IngestNext ==
    \/ \E m \in IngestTexts : IngestBegin(m)
    \/ IngestRun
    \/ IngestFault

SpecIngest == IngestInit /\ [][IngestNext]_vars

\* graph[a][b], or 0 when the edge is absent
Weight(graph, a, b) ==
    IF Has(graph, a) /\ Has(Get(graph, a), b) THEN Get(Get(graph, a), b) ELSE 0

\* the edges of a graph
Edges(graph) ==
    UNION {{<<graph[i][1], graph[i][2][j][1]>> : j \in 1..Len(graph[i][2])} :
           i \in 1..Len(graph)}

\* how often b follows a in the lowercased tokens of a message
PairCount(msg, a, b) ==
    LET ws == Split(Lower(msg))
    IN  Cardinality({i \in 1..(Len(ws) - 1) : ws[i] = a /\ ws[i + 1] = b})

\* a message has just been ingested
Ingested == ing.pc = "idle" /\ ing.hist # <<>>

\* the weight of the edge hello -> there
HelloThere == Weight(ing.brain.words, "hello", "there")

\* a new user has sent "hello there friend" and then "hello there world"
FreshHelloTwice ==
    /\ Ingested
    /\ ing.start = default_brain
    /\ Len(ing.hist) >= 2
    /\ ing.hist[1] = "hello there friend"
    /\ ing.hist[2] = "hello there world"

\* C13 as stated: after the two messages words["hello"]["there"] is 2.0, and
\* after a third message without the pair it is 2.0 * 0.997 = 1.994.
C13_TwoIngestsGiveTwo ==
    FreshHelloTwice =>
      /\ Len(ing.hist) = 2 => HelloThere = 2 * Unit
      /\ (Len(ing.hist) = 3 /\ PairCount(ing.hist[3], "hello", "there") = 0)
            => HelloThere = 1994000

\* C13 amended: every message ends with a decay of every edge, so after the
\* two messages the weight is (1.0 * 0.997 + 1.0) * 0.997 = 1.991009, and
\* after a third message without the pair 1.991009 * 0.997 = 1.985036.
C13_TwoIngestsDecayTwice ==
    FreshHelloTwice =>
      /\ Len(ing.hist) = 2 => HelloThere = 1991009
      /\ (Len(ing.hist) = 3 /\ PairCount(ing.hist[3], "hello", "there") = 0)
            => HelloThere = 1985036

\* the three messages of the example have been ingested
C13_ThirdMessageIngested ==
    /\ FreshHelloTwice
    /\ Len(ing.hist) = 3
    /\ ing.hist[3] = "see you"
    /\ HelloThere < 2 * Unit

\* x * 0.997, to the nearest millionth
Scaled(x) == x - ((3 * x + 500) \div 1000)

\* C14: the statements of one ingest run in the order context, words,
\* letters, decay, and the decay is applied once to every word edge, the
\* increments of the same message included: an edge of prior weight p whose
\* pair occurs k times ends with (p + k * 1.0) * 0.997, an edge not in the
\* message with p * 0.997; the letter graph is not decayed.
C14_DecayAfterReinforcement ==
    Ingested =>
      /\ ing.steps = <<"context", "words", "letters", "decay">>
      /\ \A e \in Edges(ing.brain.words) \cup Edges(ing.before.words) :
            Weight(ing.brain.words, e[1], e[2])
              = Scaled(Weight(ing.before.words, e[1], e[2])
                         + PairCount(ing.msg, e[1], e[2]) * WORD_INC)
      /\ \A e \in Edges(ing.before.letters) :
            Weight(ing.brain.letters, e[1], e[2])
              >= Weight(ing.before.letters, e[1], e[2])

\* a pair occurred twice in a message, on an edge that had a weight before,
\* while another edge was not in the message
C14_RepeatedPairOnOldEdge ==
    /\ Ingested
    /\ ing.msg = "a b a b"
    /\ Weight(ing.before.words, "a", "b") > 0
    /\ Weight(ing.before.words, "hello", "there") > 0
    /\ Weight(ing.brain.words, "hello", "there")
         < Weight(ing.before.words, "hello", "there")

\* C15: every word and letter weight is >= 0, and a decay leaves every word
\* edge at or below its weight just before that decay.
C15_WeightsBoundedByDecay ==
    /\ \A e \in Edges(ing.brain.words) : Weight(ing.brain.words, e[1], e[2]) >= 0
    /\ \A e \in Edges(ing.brain.letters) :
          Weight(ing.brain.letters, e[1], e[2]) >= 0
    /\ (ing.steps # <<>> /\ ing.steps[Len(ing.steps)] = "decay")
          => \A e \in Edges(ing.pre.words) :
                Weight(ing.brain.words, e[1], e[2])
                  <= Weight(ing.pre.words, e[1], e[2])

\* a decay has lowered an edge that stays above zero, after three messages
C15_EdgeDecayedThreeTimes ==
    /\ Ingested
    /\ Len(ing.hist) = MaxIngest
    /\ \E e \in Edges(ing.pre.words) :
          /\ Weight(ing.brain.words, e[1], e[2]) < Weight(ing.pre.words, e[1], e[2])
          /\ Weight(ing.brain.words, e[1], e[2]) > 0
          /\ Weight(ing.start.words, e[1], e[2]) > 0

\* the context keys an ingest changed
ChangedKeys ==
    {k \in {ing.brain.context[i][1] : i \in 1..Len(ing.brain.context)} :
       ~Has(ing.before.context, k)
         \/ Get(ing.before.context, k) # Get(ing.brain.context, k)}

\* C18: one ingest changes at most one context key.
C18_AtMostOneContextKey == Ingested => Cardinality(ChangedKeys) <= 1

\* C20: the learning faults on no non-empty message.
C20_IngestNeverFaults == ing.pc # "fault"

(***************************************************************************)
(* predict_next_word on its own.                                           *)
(*   prd  the brain and the word of a call, and what the call gave         *)
(***************************************************************************)
\* documents as load_brain takes them from the store, json.load checking no
\* weight: every weight of word "a" is 0.0; "c" has a zero and a positive one
StoredZeroBrains ==
    {[default_brain EXCEPT
        !.words = << <<"a", << <<"b", 0>>, <<"aa", 0>> >> >> >>,
        !.letters = ls] :
       ls \in {<<>>, << <<"a", << <<"b", LETTER_INC>> >> >> >>}}
      \cup {[default_brain EXCEPT
               !.words = << <<"c", << <<"a", 0>>, <<"b", Unit>> >> >> >>]}

PredictBrains == GenBrains \cup StoredZeroBrains

PredictInit ==
    /\ prd \in {[pc |-> "call", brain |-> b, word |-> w, result |-> ""] :
                b \in PredictBrains, w \in GenSeeds}
    /\ fs = [p \in Files |-> NoFile]
    /\ durable = [p \in Paths |-> NoFile]
    /\ lock = 0
    /\ running = 0
    /\ req = [r \in Req |-> NoRequest]
    /\ heap = <<>>
    /\ order = <<>>
    /\ crashes = 0
    /\ gen = [pc |-> "off"]
    /\ tch = [pc |-> "off"]
    /\ ing = [pc |-> "off"]

\* predict_next_word returns a word
PredictReturn ==
    /\ prd.pc = "call"
    /\ ~PredictFaults(prd.brain, prd.word)
    /\ \E w \in predict_next_word(prd.brain, prd.word) :
          prd' = [prd EXCEPT !.pc = "done", !.result = w]
    /\ UNCHANGED <<fs, lock, running, req, heap, durable, order, crashes,
                   gen, tch, ing>>

\* random.choices raises ValueError
PredictRaise ==
    /\ prd.pc = "call"
    /\ PredictFaults(prd.brain, prd.word)
    /\ prd' = [prd EXCEPT !.pc = "fault"]
    /\ UNCHANGED <<fs, lock, running, req, heap, durable, order, crashes,
                   gen, tch, ing>>

PredictNext == PredictReturn \/ PredictRaise

SpecPredict == PredictInit /\ [][PredictNext]_vars

\* the weights of the word's successors sum to zero (or it has none)
NoPositiveSuccessor(brain, word) ==
    \A i \in 1..Len(brain.words) :
      brain.words[i][1] = Lower(word)
        => \A j \in 1..Len(brain.words[i][2]) : brain.words[i][2][j][2] = 0

\* C17: predict_next_word never faults, returns a word successor only of
\* positive weight, and for a word whose successor weights are all zero gives
\* the letter extension or, without letter edges, the sentinel.
C17_ZeroWeightsFallBack ==
    /\ prd.pc # "fault"
    /\ prd.pc = "done" =>
         IF NoPositiveSuccessor(prd.brain, prd.word)
         THEN \/ prd.result = "?"
              \/ /\ Len(prd.result) = Len(prd.word) + 1
                 /\ SubSeq(prd.result, 1, Len(prd.word)) = Lower(prd.word)
         ELSE Weight(prd.brain.words, Lower(prd.word), prd.result) > 0

====
